---- MODULE Spec2Model ----
(***************************************************************************)
(* Detection.nms of src/detections.py: greedy, class-isolated Non-Maximum  *)
(* Suppression over a list of Detection objects.                           *)
(*                                                                         *)
(* Detection objects live in a heap (object id -> fields); Python lists    *)
(* are list objects holding object ids, so that aliasing between the       *)
(* caller's list and the worklist is visible.  Numbers that are floats in  *)
(* the program are exact here: box coordinates are integers (units of half *)
(* the image side), confidences are integer levels, and an IoU or a        *)
(* threshold is a fraction <<numerator, denominator>> with a positive      *)
(* denominator.                                                            *)
(***************************************************************************)
EXTENDS Integers, Sequences, FiniteSets

\* Longest list handed to nms.
MaxN == 3

\* Confidence levels a detection can carry (higher is more certain).
Confidences == {1, 2}

\* class_id -> class_name, as results.names gives it.
Names == [c \in {0, 2} |-> IF c = 0 THEN "person" ELSE "car"]

\* xyxy boxes: the whole frame, its left half, its right half, and a
\* zero-area box.
Boxes == {<<0, 0, 2, 2>>, <<0, 0, 1, 2>>, <<1, 0, 2, 2>>, <<1, 1, 1, 1>>}

\* Thresholds passed as iou_threshold: negative, zero, the default 0.45, one.
DefaultThreshold == <<9, 20>>
Thresholds == {<<0 - 1, 2>>, <<0, 1>>, DefaultThreshold, <<1, 1>>}

\* The Detection dataclass; class_name is names[class_id].
Detection ==
    {[bbox |-> b, class_id |-> c, class_name |-> Names[c], confidence |-> s] :
        b \in Boxes, c \in DOMAIN Names, s \in Confidences}

VARIABLES
    heap,                 \* object id -> Detection fields
    lists,                \* list objects: "arg" the caller's list, "work" the list nms builds
    detections,           \* the list object the local name `detections` is bound to
    filtered_detections,  \* the local list of kept detections
    iou_threshold,        \* the threshold argument
    pc,                   \* "start", "loop", "done" ("raised" if an exception left nms)
    result,               \* the returned list
    iouCalls,             \* evaluations of Track._iou in the running call
    call,                 \* 1: the call on the caller's list, 2: the call on its result
    firstResult           \* what call 1 returned

vars == <<heap, lists, detections, filtered_detections, iou_threshold, pc,
          result, iouCalls, call, firstResult>>

\* The shape of the state: the fields of the objects and the locals of nms.
TypeOK ==
    /\ DOMAIN heap \subseteq 1..MaxN
    /\ \A x \in DOMAIN heap : heap[x] \in Detection
    /\ DOMAIN lists = {"arg", "work"}
    /\ \A l \in DOMAIN lists : \A k \in 1..Len(lists[l]) : lists[l][k] \in DOMAIN heap
    /\ detections \in DOMAIN lists
    /\ \A k \in 1..Len(filtered_detections) : filtered_detections[k] \in DOMAIN heap
    /\ iou_threshold \in Thresholds
    /\ pc \in {"start", "loop", "done", "raised"}
    /\ \A k \in 1..Len(result) : result[k] \in DOMAIN heap
    /\ iouCalls \in Nat
    /\ call \in {1, 2}

----------------------------------------------------------------------------
\* Fractions.

RatLess(p, q) == p[1] * q[2] < q[1] * p[2]

Max(a, b) == IF a >= b THEN a ELSE b
Min(a, b) == IF a <= b THEN a ELSE b

----------------------------------------------------------------------------
\* Track._iou, from section 4.1 of the specification.

Area(b) == (b[3] - b[1]) * (b[4] - b[2])

Intersection(a, b) ==
    Max(0, Min(a[3], b[3]) - Max(a[1], b[1]))
        * Max(0, Min(a[4], b[4]) - Max(a[2], b[2]))

Union(a, b) == Area(a) + Area(b) - Intersection(a, b)

Iou(a, b) == IF Union(a, b) = 0 THEN <<0, 1>> ELSE <<Intersection(a, b), Union(a, b)>>

----------------------------------------------------------------------------
\* sorted(detections, key=confidence, reverse=True): a stable sort, equal
\* keys keep their input order.

GoesBeforeAscending(h, x) == heap[h].confidence <= heap[x].confidence

GoesBeforeTiesReversed(h, x) == heap[h].confidence > heap[x].confidence

\* h, already placed, stays ahead of the later element x.
GoesBefore(h, x) == heap[h].confidence >= heap[x].confidence

RECURSIVE InsertSorted(_, _)
InsertSorted(s, x) ==
    IF s = <<>> THEN <<x>>
    ELSE IF GoesBefore(Head(s), x) THEN <<Head(s)>> \o InsertSorted(Tail(s), x)
    ELSE <<x>> \o s

RECURSIVE SortInto(_, _)
SortInto(acc, s) ==
    IF s = <<>> THEN acc ELSE SortInto(InsertSorted(acc, Head(s)), Tail(s))

sorted(s) == SortInto(<<>>, s)

SortedTargetInPlace == "arg"

\* sorted() returns a new list object; `detections` is rebound to it.
SortedTarget == "work"

----------------------------------------------------------------------------
\* The body of the while loop.

pop0Peek(s) == s

\* detections.pop(0) leaves the tail in the list object.
pop0(s) == Tail(s)

DifferentClassIgnored(d, current) == FALSE

\* detection.class_name != current.class_name
DifferentClass(d, current) == heap[d].class_name # heap[current].class_name

KeepTestLeq(iou, threshold) == ~RatLess(threshold, iou)

KeepTestInverted(iou, threshold) == RatLess(threshold, iou)

\* iou < iou_threshold
KeepTest(iou, threshold) == RatLess(iou, threshold)

\* The for loop: what is appended to remaining_detections.
RECURSIVE remaining_detections(_, _, _)
remaining_detections(dets, current, threshold) ==
    IF dets = <<>> THEN <<>>
    ELSE LET d == Head(dets)
             rest == remaining_detections(Tail(dets), current, threshold)
         IN  IF DifferentClass(d, current) THEN <<d>> \o rest
             ELSE IF KeepTest(Iou(heap[current].bbox, heap[d].bbox), threshold)
                  THEN <<d>> \o rest
                  ELSE rest

\* How many times the for loop reaches the Track._iou call.
IouEvaluations(dets, current) ==
    Cardinality({k \in 1..Len(dets) : ~DifferentClass(dets[k], current)})

EmptyCaseRaises == "raised"

\* `if not detections: return []` ends the call normally.
EmptyCase == "done"

----------------------------------------------------------------------------
\* The state machine.

Init ==
    /\ \E n \in 0..MaxN :
        /\ heap \in [1..n -> Detection]
        /\ lists = [arg |-> [i \in 1..n |-> i], work |-> <<>>]
    /\ iou_threshold \in Thresholds
    /\ detections = "arg"
    /\ filtered_detections = <<>>
    /\ pc = "start"
    /\ result = <<>>
    /\ iouCalls = 0
    /\ call = 1
    /\ firstResult = <<>>

\* Lines 33-34: the empty list returns at once.
ReturnEmpty ==
    /\ pc = "start"
    /\ lists[detections] = <<>>
    /\ pc' = EmptyCase
    /\ result' = <<>>
    /\ UNCHANGED <<heap, lists, detections, filtered_detections, iou_threshold,
                   iouCalls, call, firstResult>>

\* Lines 37-39: sort into a new list, start with nothing kept.
Sort ==
    /\ pc = "start"
    /\ lists[detections] # <<>>
    /\ lists' = [lists EXCEPT ![SortedTarget] = sorted(lists[detections])]
    /\ detections' = SortedTarget
    /\ filtered_detections' = <<>>
    /\ pc' = "loop"
    /\ UNCHANGED <<heap, iou_threshold, result, iouCalls, call, firstResult>>

\* Lines 41-60: one pass of the while loop.
Iterate ==
    /\ pc = "loop"
    /\ lists[detections] # <<>>
    /\ LET current == Head(lists[detections])
           popped == pop0(lists[detections])
           remaining == remaining_detections(popped, current, iou_threshold)
           afterPop == [lists EXCEPT ![detections] = popped]
       IN  /\ filtered_detections' = Append(filtered_detections, current)
           /\ iouCalls' = iouCalls + IouEvaluations(popped, current)
           /\ lists' = [afterPop EXCEPT !["work"] = remaining]
           /\ detections' = "work"
    /\ UNCHANGED <<heap, iou_threshold, pc, result, call, firstResult>>

\* Lines 41 and 62: the worklist is empty, return what was kept.
Return ==
    /\ pc = "loop"
    /\ lists[detections] = <<>>
    /\ result' = filtered_detections
    /\ pc' = "done"
    /\ UNCHANGED <<heap, lists, detections, filtered_detections, iou_threshold,
                   iouCalls, call, firstResult>>

\* The caller hands the returned list to nms again, with the same threshold.
CallAgain ==
    /\ pc = "done"
    /\ call = 1
    /\ call' = 2
    /\ firstResult' = result
    /\ lists' = [arg |-> result, work |-> <<>>]
    /\ detections' = "arg"
    /\ filtered_detections' = <<>>
    /\ result' = <<>>
    /\ iouCalls' = 0
    /\ pc' = "start"
    /\ UNCHANGED <<heap, iou_threshold>>

Next == ReturnEmpty \/ Sort \/ Iterate \/ Return \/ CallAgain

Spec == Init /\ [][Next]_vars

----------------------------------------------------------------------------
\* Vocabulary of the properties.

Range(s) == {s[k] : k \in 1..Len(s)}

Injective(s) == \A i, j \in 1..Len(s) : s[i] = s[j] => i = j

\* The list nms was called with.
Argument == lists["arg"]

Worklist == lists[detections]

Returned == pc = "done"

PosIn(s, x) == CHOOSE k \in 1..Len(s) : s[k] = x

SameClass(a, b) == heap[a].class_name = heap[b].class_name

\* iou(a.bbox, b.bbox) >= iou_threshold
Overlaps(a, b) == ~RatLess(Iou(heap[a].bbox, heap[b].bbox), iou_threshold)

IouIs(a, b, n, d) == Iou(heap[a].bbox, heap[b].bbox)[1] * d = n * Iou(heap[a].bbox, heap[b].bbox)[2]

\* a comes before b in the confidence-sorted order of the argument.
RanksAhead(a, b) ==
    \/ heap[a].confidence > heap[b].confidence
    \/ /\ heap[a].confidence = heap[b].confidence
       /\ PosIn(Argument, a) < PosIn(Argument, b)

ClassesPresent == {heap[x].class_name : x \in Range(Argument)}

\* The first highest-confidence detection of class c in the argument.
FirstBest(c) ==
    CHOOSE x \in Range(Argument) :
        /\ heap[x].class_name = c
        /\ \A y \in Range(Argument) \ {x} : heap[y].class_name = c => RanksAhead(x, y)

NonPositiveThreshold == iou_threshold[1] <= 0

----------------------------------------------------------------------------
\* C1: no two detections of the returned list have the same class_name and
\* boxes whose IoU is at or above the threshold.
C1_NoSameClassOverlapSurvives ==
    Returned =>
        \A i, j \in 1..Len(result) :
            (i < j /\ SameClass(result[i], result[j])) =>
                /\ RatLess(Iou(heap[result[i]].bbox, heap[result[j]].bbox), iou_threshold)
                /\ RatLess(Iou(heap[result[j]].bbox, heap[result[i]].bbox), iou_threshold)

\* A call that discarded a same-class overlap and still returned two
\* detections of one class.
C1_Witness ==
    /\ Returned /\ call = 1
    /\ Len(result) < Len(Argument)
    /\ \E i, j \in 1..Len(result) : i < j /\ SameClass(result[i], result[j])

----------------------------------------------------------------------------
\* C2: a pass of the while loop carries every remaining detection of another
\* class than current's over to the next pass, whatever its IoU with
\* current; and of two detections of different classes handed to nms
\* together, both are returned, fully overlapping or not.
C2_DifferentClassNeverDiscarded ==
    /\ [][(pc = "loop" /\ pc' = "loop") =>
            \A k \in 2..Len(Worklist) :
                DifferentClass(Worklist[k], Worklist[1]) =>
                    Worklist[k] \in Range(Worklist')]_vars
    /\ [](Returned =>
            \A a, b \in Range(Argument) :
                (Len(Argument) = 2 /\ ~SameClass(a, b)) =>
                    (a \in Range(result) /\ b \in Range(result)))

\* Two identical positive-area boxes of different classes, both returned.
C2_Witness ==
    /\ Returned /\ call = 1
    /\ Len(Argument) = 2
    /\ ~SameClass(Argument[1], Argument[2])
    /\ IouIs(Argument[1], Argument[2], 1, 1)
    /\ Range(result) = Range(Argument)

\* C3: the returned list is in descending order of confidence.
C3_OutputSortedByConfidence ==
    Returned =>
        \A i, j \in 1..Len(result) :
            i < j => heap[result[i]].confidence >= heap[result[j]].confidence

\* An argument that was not in descending order, with survivors of
\* different confidence.
C3_Witness ==
    /\ Returned /\ call = 1
    /\ \E i, j \in 1..Len(Argument) :
        i < j /\ heap[Argument[i]].confidence < heap[Argument[j]].confidence
    /\ \E i, j \in 1..Len(result) :
        heap[result[i]].confidence > heap[result[j]].confidence

\* C4: nms applied to its own result, with the same threshold, returns the
\* same detections in the same order.
C4_Idempotent == (Returned /\ call = 2) => result = firstResult

\* The second call has returned, on a first result that had lost a
\* detection and kept several.
C4_Witness ==
    /\ Returned /\ call = 2
    /\ Len(firstResult) >= 2
    /\ Len(firstResult) < Cardinality(DOMAIN heap)

\* a, earlier in the argument than b, has b's confidence.
TiedEarlier(a, b) ==
    /\ PosIn(Argument, a) < PosIn(Argument, b)
    /\ heap[a].confidence = heap[b].confidence

\* The returned detections that rank ahead of a and discard it.
Suppressors(a) ==
    {k \in Range(result) : k # a /\ RanksAhead(k, a) /\ SameClass(k, a) /\ Overlaps(k, a)}

\* C5 as stated: of two detections of equal confidence, of the same class
\* and overlapping, the earlier is kept and the later discarded; when both
\* are kept, the earlier comes first in the result.
C5_EarlierKeptLaterDiscarded ==
    Returned =>
        \A a, b \in Range(Argument) :
            TiedEarlier(a, b) =>
                /\ (SameClass(a, b) /\ Overlaps(a, b)) =>
                        (a \in Range(result) /\ b \notin Range(result))
                /\ (a \in Range(result) /\ b \in Range(result)) =>
                        PosIn(result, a) < PosIn(result, b)

\* C5: of two detections of equal confidence, of the same class and
\* overlapping, the later is never kept with the earlier, and the earlier is
\* kept and the later discarded unless a returned detection that ranks
\* ahead of the earlier discards it; when both are kept, the earlier comes
\* first in the result.
C5_FirstSeenWins ==
    Returned =>
        \A a, b \in Range(Argument) :
            TiedEarlier(a, b) =>
                /\ (SameClass(a, b) /\ Overlaps(a, b) /\ Suppressors(a) = {}) =>
                        (a \in Range(result) /\ b \notin Range(result))
                /\ (SameClass(a, b) /\ Overlaps(a, b) /\ a \in Range(result)) =>
                        b \notin Range(result)
                /\ (a \in Range(result) /\ b \in Range(result)) =>
                        PosIn(result, a) < PosIn(result, b)

\* A tie decided for the earlier detection, and a tie where both are kept.
C5_Witness ==
    /\ Returned /\ call = 1
    /\ \E a, b \in Range(Argument) :
        /\ TiedEarlier(a, b) /\ SameClass(a, b) /\ Overlaps(a, b)
        /\ a \in Range(result) /\ b \notin Range(result)
    /\ \E a, b \in Range(Argument) :
        /\ TiedEarlier(a, b)
        /\ a \in Range(result) /\ b \in Range(result)

\* C6: every pass of the while loop leaves the worklist strictly shorter and
\* adds nothing to it, and keeps exactly one more detection; the passes
\* taken never outnumber the detections handed in.
C6_WorklistShrinks ==
    [][(pc = "loop" /\ pc' = "loop") =>
        /\ Len(Worklist') < Len(Worklist)
        /\ Range(Worklist') \subseteq Range(Worklist)
        /\ Len(filtered_detections') = Len(filtered_detections) + 1
        /\ Len(filtered_detections') + Len(Worklist') <= Len(Argument)]_vars

\* Two passes taken and a third to come.
C6_Witness ==
    /\ pc = "loop"
    /\ Len(filtered_detections) >= 2
    /\ Worklist # <<>>

\* C7: no step of a call changes the list the call was given or a field of
\* any Detection.
C7_InputUntouched ==
    [][call' = call => (lists'["arg"] = lists["arg"] /\ heap' = heap)]_vars

\* A call that had to reorder its input and discarded part of it.
C7_Witness ==
    /\ Returned /\ call = 1
    /\ sorted(Argument) # Argument
    /\ Len(result) < Len(Argument)

\* C8: called with the empty list, nms returns the empty list, raises
\* nothing and evaluates no IoU, whatever the threshold.
C8_EmptyInEmptyOut ==
    (Argument = <<>> /\ pc # "start") =>
        (pc = "done" /\ result = <<>> /\ iouCalls = 0)

\* The first call has returned from the empty list.
C8_Witness == Returned /\ call = 1 /\ Argument = <<>>

\* C9: the result holds detections of the argument only, none twice; a
\* detection missing from it is of the class of a returned detection that
\* ranks ahead of it and overlaps it; handed two detections of one class with
\* IoU 0 and a positive threshold, nms returns both; and the first
\* highest-confidence detection of every class is returned.
C9_DiscardsJustified ==
    Returned =>
        /\ Injective(result)
        /\ Range(result) \subseteq Range(Argument)
        /\ \A d \in Range(Argument) \ Range(result) :
            \E k \in Range(result) :
                /\ SameClass(k, d)
                /\ RanksAhead(k, d)
                /\ heap[k].confidence >= heap[d].confidence
                /\ Overlaps(k, d)
        /\ \A a, b \in Range(Argument) :
            (/\ Len(Argument) = 2 /\ a # b /\ SameClass(a, b)
             /\ IouIs(a, b, 0, 1) /\ ~NonPositiveThreshold) =>
                (a \in Range(result) /\ b \in Range(result))
        /\ \A c \in ClassesPresent : FirstBest(c) \in Range(result)

\* A detection is discarded, and a returned detection overlaps a discarded
\* one of its class that ranks ahead of it.
C9_Witness ==
    /\ Returned /\ call = 1
    /\ \E d \in Range(Argument) \ Range(result), k \in Range(result) :
        SameClass(k, d) /\ Overlaps(d, k) /\ RanksAhead(d, k)

\* C10: with a threshold of zero or less, the result holds one detection for
\* every class_name of the argument, the first highest-confidence detection
\* of that class, and nothing else.
C10_OnePerClass ==
    (Returned /\ NonPositiveThreshold) =>
        /\ Range(result) = {FirstBest(c) : c \in ClassesPresent}
        /\ Len(result) = Cardinality(ClassesPresent)

\* A detection discarded at a threshold of zero or less although its box
\* shares no area with the returned detection of its class.
C10_Witness ==
    /\ Returned /\ call = 1 /\ NonPositiveThreshold
    /\ \E d \in Range(Argument) \ Range(result) :
        IouIs(FirstBest(heap[d].class_name), d, 0, 1)

====
